---- MODULE Spec2Model ----
(***************************************************************************)
(* fakir: generators (Fakir objects) live on a heap and are identified by  *)
(* id(); generate() threads one random.Random and one by-object-id cache   *)
(* through the recursive _generate calls.  A client script builds          *)
(* generators with the library's constructors and then samples them.       *)
(***************************************************************************)
EXTENDS Integers, Sequences, FiniteSets, TLC

\* ---------------------------------------------------------------- bounds
SeedLen == 3        \* period of the raw variate stream of the Random instance
RawMax == 1         \* raw variates are 0..RawMax
MaxAddr == 16       \* object addresses are 1..MaxAddr
RepeatCount == 2    \* count passed to repeat() by the client scripts
MaxChoose == 3      \* largest explicit choose / count passed by a client
MaxBound == 2       \* largest bound a, b passed to truncated_normal
MaxDraws == 4       \* variates counted and remembered per Random instance
MaxSamples == 2     \* generate() calls on a truncated_normal generator

VARIABLES prog, arg, pc, env, heap, seed, pos, cache, log, out, err

vars == <<prog, arg, pc, env, heap, seed, pos, cache, log, out, err>>

\* ------------------------------------------------------- objects, values
\* a Python callable: a named function with the generators and the values
\* its closure captured
Fn(name, refs, vals) == [name |-> name, refs |-> refs, vals |-> vals]

NoFn == Fn("", <<>>, <<>>)

\* Optional[int]
None == [some |-> FALSE, k |-> 0]

Some(k) == [some |-> TRUE, k |-> k]

NoObj == [kind |-> "free", fn |-> NoFn, args |-> <<>>, fakir |-> 0,
          val |-> 0, choices |-> <<>>, count |-> 0]

ConstFakir(val) == [NoObj EXCEPT !.kind = "Const", !.val = val]

Fn1Fakir(fn) == [NoObj EXCEPT !.kind = "Fn1", !.fn = fn]

LiftFakir(fn, args) == [NoObj EXCEPT !.kind = "Lift", !.fn = fn, !.args = args]

BindFakir(fakir, fn) == [NoObj EXCEPT !.kind = "Bind", !.fakir = fakir, !.fn = fn]

ChoiceFakir(choices) == [NoObj EXCEPT !.kind = "Choice", !.choices = choices]

BootstrapFakir(choices, count) ==
    [NoObj EXCEPT !.kind = "Bootstrap", !.choices = choices, !.count = count]

PermuteFakir_unchecked(choices, choose) ==
    [exc |-> "",
     obj |-> [NoObj EXCEPT !.kind = "Permute", !.choices = choices,
                           !.count = IF choose.some THEN choose.k
                                     ELSE Len(choices)]]

\* PermuteFakir.__init__: the object, or the exception the constructor raises
PermuteFakir(choices, choose) ==
    IF choose.some /\ ~(0 <= choose.k /\ choose.k <= Len(choices))
    THEN [exc |-> "ValueError", obj |-> NoObj]
    ELSE [exc |-> "",
          obj |-> [NoObj EXCEPT !.kind = "Permute", !.choices = choices,
                                !.count = IF choose.some THEN choose.k
                                          ELSE Len(choices)]]

\* the primitive classes, which inherit Fakir._generate and define generate1
Primitive == {"Fn1", "Choice", "Bootstrap", "Permute"}

\* ------------------------------------------------------ evaluation state
\* heap, cache dict, position of the Random instance, event log, call depth
Machine(h, c, p, l) == [heap |-> h, cache |-> c, pos |-> p, log |-> l, depth |-> 0]

EmptyCache == [i \in {} |-> 0]

Ev(ev, id, d, o, val, p) ==
    [ev |-> ev, id |-> id, d |-> d, o |-> o, val |-> val, pos |-> p]

Emit(m, ev, id, o, val) ==
    [m EXCEPT !.log = Append(@, Ev(ev, id, m.depth, o, val, m.pos))]

Ok(m, v) == [m |-> m, val |-> v, exc |-> ""]

Raise(m, e) == [m |-> m, val |-> 0, exc |-> e]

\* ------------------------------------------------------------- allocator
\* id(): a new object gets an address no live object has.  Addresses of
\* dead objects may be handed out again; those still used as cache keys
\* are the ones whose reuse is observable, all others are interchangeable.
FreeAddrs(m) == {i \in 1..MaxAddr : m.heap[i].kind = "free"}

Min(S) == CHOOSE x \in S : \A y \in S : x <= y

AllocAddrs(m) ==
    LET stale == FreeAddrs(m) \cap DOMAIN m.cache
        clean == FreeAddrs(m) \ DOMAIN m.cache
    IN  stale \cup (IF clean = {} THEN {} ELSE {Min(clean)})

New(m, obj) ==
    {[m |-> Emit([m EXCEPT !.heap[i] = obj], "new", i, obj, 0), id |-> i]
       : i \in AllocAddrs(m)}

Free(m, S) ==
    [m EXCEPT !.heap = [i \in 1..MaxAddr |-> IF i \in S THEN NoObj ELSE @[i]]]

\* ------------------------------------------------------------ random.Random
Raw(p) == seed[(p % SeedLen) + 1]

\* r.uniform(a, b), r.normalvariate(mu, sigma): one variate near vals[1]
Fn1_generate1(o, m) ==
    Ok([m EXCEPT !.pos = @ + 1], o.fn.vals[1] + Raw(m.pos))

\* r.choice(seq)
ChoiceFakir_generate1(o, m) ==
    IF Len(o.choices) = 0 THEN Raise(m, "IndexError")
    ELSE Ok([m EXCEPT !.pos = @ + 1],
            o.choices[(Raw(m.pos) % Len(o.choices)) + 1])

RECURSIVE r_choices(_, _, _)
\* r.choices(population, k=k): k picks, each of one random() call
r_choices(population, k, p) ==
    IF k <= 0 THEN [val |-> <<>>, pos |-> p, exc |-> ""]
    ELSE IF Len(population) = 0
         THEN [val |-> <<>>, pos |-> p + 1, exc |-> "IndexError"]
         ELSE LET rest == r_choices(population, k - 1, p + 1)
              IN  [rest EXCEPT !.val =
                     <<population[(Raw(p) % Len(population)) + 1]>> \o @]

BootstrapFakir_generate1_guarded(o, m) ==
    LET r == r_choices(o.choices, IF Len(o.choices) = 0 THEN 0 ELSE o.count,
                       m.pos)
    IN  Ok([m EXCEPT !.pos = r.pos], r.val)

BootstrapFakir_generate1(o, m) ==
    LET r == r_choices(o.choices, o.count, m.pos)
    IN  IF r.exc # "" THEN Raise([m EXCEPT !.pos = r.pos], r.exc)
        ELSE Ok([m EXCEPT !.pos = r.pos], r.val)

RECURSIVE r_sample_pool(_, _, _, _)
\* the selection loop of r.sample: result[i] = pool[j]; pool[j] = pool[n-i-1]
r_sample_pool(pool, n, k, p) ==
    IF k = 0 THEN [val |-> <<>>, pos |-> p]
    ELSE LET j == (Raw(p) % n) + 1
             rest == r_sample_pool([pool EXCEPT ![j] = pool[n]], n - 1,
                                   k - 1, p + 1)
         IN  [rest EXCEPT !.val = <<pool[j]>> \o @]

r_sample_replace(population, k, p) ==
    IF ~(0 <= k /\ k <= Len(population))
    THEN [val |-> <<>>, pos |-> p, exc |-> "ValueError"]
    ELSE r_choices(population, k, p)

\* r.sample(population, k)
r_sample(population, k, p) ==
    IF ~(0 <= k /\ k <= Len(population))
    THEN [val |-> <<>>, pos |-> p, exc |-> "ValueError"]
    ELSE LET r == r_sample_pool(population, Len(population), k, p)
         IN  [val |-> r.val, pos |-> r.pos, exc |-> ""]

PermuteFakir_generate1(o, m) ==
    LET r == r_sample(o.choices, o.count, m.pos)
    IN  IF r.exc # "" THEN Raise([m EXCEPT !.pos = r.pos], r.exc)
        ELSE Ok([m EXCEPT !.pos = r.pos], r.val)

\* dispatch of self.generate1(r) on the class of the object
generate1(o, m) ==
    CASE o.kind = "Fn1" -> Fn1_generate1(o, m)
      [] o.kind = "Choice" -> ChoiceFakir_generate1(o, m)
      [] o.kind = "Bootstrap" -> BootstrapFakir_generate1(o, m)
      [] o.kind = "Permute" -> PermuteFakir_generate1(o, m)

Fakir_generate_uncached(id, m) ==
    LET r == generate1(m.heap[id], m)
    IN  IF r.exc # "" THEN r
        ELSE Ok(Emit(r.m, "draw", id, NoObj, r.val), r.val)

\* Fakir._generate: the memoized call to generate1, keyed by id(self)
Fakir_generate(id, m) ==
    IF id \in DOMAIN m.cache
    THEN Ok(Emit(m, "hit", id, NoObj, m.cache[id]), m.cache[id])
    ELSE LET r == generate1(m.heap[id], m)
         IN  IF r.exc # "" THEN r
             ELSE Ok(Emit([r.m EXCEPT !.cache = (id :> r.val) @@ @],
                          "draw", id, NoObj, r.val), r.val)

\* ----------------------------------------------------- lifted functions
Truthy(v) == v # 0

\* the functions handed to LiftFakir
ApplyFn(fn, xs) ==
    CASE fn.name = "tuple" -> xs
      [] fn.name = "list" -> xs
      [] fn.name = "mul" -> xs[1] * xs[2]
      [] fn.name = "add" -> xs[1] + xs[2]
      [] fn.name = "eq" -> IF xs[1] = xs[2] THEN 1 ELSE 0
      [] fn.name = "pair" -> <<fn.vals[1], xs[1]>>
      [] fn.name = "select" -> IF Truthy(xs[1]) THEN xs[2] ELSE xs[3]

\* ------------------------------------------------------- copy.deepcopy
RECURSIVE deepcopy(_, _, _)
RECURSIVE deepcopy_args(_, _, _, _)
\* deepcopy of the tuple self._args, element by element
deepcopy_args(args, i, m, memo) ==
    IF i > Len(args) THEN {[m |-> m, ids |-> <<>>, memo |-> memo]}
    ELSE UNION {
           {[r EXCEPT !.ids = <<c.id>> \o @]
              : r \in deepcopy_args(args, i + 1, c.m, c.memo)}
           : c \in deepcopy(args[i], m, memo)}

deepcopy_forgetful(x, m, memo) ==
    LET o == m.heap[x]
    IN UNION { UNION { {
         [m |-> [cf.m EXCEPT !.heap[y.id] =
                    [o EXCEPT !.args = ca.ids, !.fakir = cf.id]],
          id |-> y.id,
          memo |-> (x :> y.id) @@ cf.memo]
         : cf \in (IF o.fakir = 0
                   THEN {[m |-> ca.m, id |-> 0, memo |-> ca.memo]}
                   ELSE deepcopy(o.fakir, ca.m, ca.memo)) }
         : ca \in deepcopy_args(o.args, 1, y.m, memo) }
         : y \in New(m, o) }

\* copy.deepcopy(x, memo) of a Fakir instance: a new instance whose
\* __dict__ is the deep copy of x's; functions are copied by reference, so
\* what a closure captured is shared; memo keeps the sharing inside x
deepcopy(x, m, memo) ==
    IF x \in DOMAIN memo THEN {[m |-> m, id |-> memo[x], memo |-> memo]}
    ELSE LET o == m.heap[x]
         IN UNION { UNION { {
              [m |-> [cf.m EXCEPT !.heap[y.id] =
                         [o EXCEPT !.args = ca.ids, !.fakir = cf.id]],
               id |-> y.id,
               memo |-> (x :> y.id) @@ cf.memo]
              : cf \in (IF o.fakir = 0
                        THEN {[m |-> ca.m, id |-> 0, memo |-> ca.memo]}
                        ELSE deepcopy(o.fakir, ca.m, ca.memo)) }
              : ca \in deepcopy_args(o.args, 1, y.m, memo) }
              : y \in New(m, o) }

Range(f) == {f[i] : i \in DOMAIN f}

EmptyMemo == [i \in {} |-> 0]

iid_same(x, m) == {[m |-> m, id |-> x, made |-> {}]}

\* Fakir.iid
iid(x, m) ==
    {[m |-> c.m, id |-> c.id, made |-> Range(c.memo)]
       : c \in deepcopy(x, m, EmptyMemo)}

RECURSIVE iids(_, _, _)
\* (fakir.iid() for _ in range(count))
iids(x, count, m) ==
    IF count <= 0 THEN {[m |-> m, ids |-> <<>>, made |-> {}]}
    ELSE UNION {
           {[r EXCEPT !.ids = <<c.id>> \o @, !.made = c.made \cup @]
              : r \in iids(x, count - 1, c.m)}
           : c \in iid(x, m)}

\* Fakir.liftList(fn, *args) and Fakir.lift(fn, *args)
lift(fn, args, m) ==
    {[m |-> y.m, id |-> y.id, made |-> {y.id}]
       : y \in New(m, LiftFakir(fn, args))}

\* listed(*args)
listed(args, m) == lift(Fn("list", <<>>, <<>>), args, m)

\* repeat(fakir, count)
repeat(x, count, m) ==
    UNION { {[l EXCEPT !.made = c.made \cup @] : l \in listed(c.ids, c.m)}
            : c \in iids(x, count, m) }

\* Fakir.bind
bind(x, fn, m) ==
    {[m |-> y.m, id |-> y.id, made |-> {y.id}]
       : y \in New(m, BindFakir(x, fn))}

\* Fakir.map
map(x, fn, m) == lift(fn, <<x>>, m)

\* uniform(a, b), normal(mu, sigma)
rng_fn(fn, m) ==
    {[m |-> y.m, id |-> y.id, made |-> {y.id}]
       : y \in New(m, Fn1Fakir(fn))}

\* fixed(val)
fixed(val, m) ==
    {[m |-> y.m, id |-> y.id, made |-> {y.id}]
       : y \in New(m, ConstFakir(val))}

\* r.normalvariate(mu, sigma): the variates a Random instance can return
r_normalvariate(mu) == {mu + raw : raw \in 0..RawMax}

tnorm_accepts_open(fn, val) ==
    /\ (~fn.vals[2].some \/ val > fn.vals[2].k)
    /\ (~fn.vals[3].some \/ val < fn.vals[3].k)

tnorm_accepts_lower(fn, val) == ~fn.vals[2].some \/ val >= fn.vals[2].k

\* tnorm: (a is None or val >= a) and (b is None or val <= b)
tnorm_accepts(fn, val) ==
    /\ (~fn.vals[2].some \/ val >= fn.vals[2].k)
    /\ (~fn.vals[3].some \/ val <= fn.vals[3].k)

\* truncated_normal(mu, sigma, a, b): Fn1Fakir(tnorm), tnorm closed over
\* mu, a and b
truncated_normal(mu, a, b, m) == rng_fn(Fn("tnorm", <<>>, <<mu, a, b>>), m)

ifelse_eager(cond, ifTrue, ifFalse, m) ==
    lift(Fn("select", <<>>, <<>>), <<cond, ifTrue, ifFalse>>, m)

\* ifelse(cond, ifTrue, ifFalse)
ifelse(cond, ifTrue, ifFalse, m) ==
    bind(cond, Fn("ifElse", <<ifTrue, ifFalse>>, <<>>), m)

\* --------------------------------------------- continuations of bind
PriceLo(p) == IF p = "Oil" THEN 30 ELSE 1

\* lambda p: (uniform(30, 60) if p == 'Oil' else uniform(1.5, 4.5))
\*              .fmap(lambda pr: (p, pr))
fn_price(fn, v, m) ==
    UNION { {[l EXCEPT !.made = u.made \cup @]
               : l \in map(u.id, Fn("pair", <<>>, <<v>>), u.m)}
            : u \in rng_fn(Fn("uniform", <<>>, <<PriceLo(v)>>), m) }

\* lambda a: height.bind(lambda h: fixed((a, h, a * h)))
fn_a_h_v(fn, v, m) == bind(fn.refs[1], Fn("a_h_v_h", <<>>, <<v>>), m)

\* lambda h: fixed((a, h, a * h))
fn_a_h_v_h(fn, v, m) == fixed(<<fn.vals[1], v, fn.vals[1] * v>>, m)

\* ifElse(cond) inside ifelse
fn_ifElse(fn, v, m) ==
    IF Truthy(v) THEN iid(fn.refs[1], m) ELSE iid(fn.refs[2], m)

\* repeat(normal(g, s), count).bind(inner): the argument of repeat is dead
\* once repeat has returned
repeat_normal_bind(v, inner, m) ==
    UNION { UNION {
      {[b EXCEPT !.made = r.made \cup @]
         : b \in bind(r.id, inner, Free(r.m, n.made))}
      : r \in repeat(n.id, RepeatCount, n.m) }
      : n \in rng_fn(Fn("normal", <<>>, <<v>>), m) }

\* hellmode: lambda g: repeat(normal(g, 5), 3).bind(lambda d: fixed((g, d)))
fn_hell(fn, v, m) == repeat_normal_bind(v, Fn("hell_d", <<>>, <<v>>), m)

\* lambda d: fixed((g, d))
fn_hell_d(fn, v, m) == fixed(<<fn.vals[1], v>>, m)

\* bind_example: lambda g: repeat(normal(g, 2), 3).bind(lambda d: ...)
fn_dude(fn, v, m) == repeat_normal_bind(v, Fn("dude_d", <<>>, <<v>>), m)

\* lambda d: normal(d[0], 0.05).bind(lambda x: fixed((g, d, x)))
fn_dude_d(fn, v, m) ==
    UNION { {[b EXCEPT !.made = n.made \cup @]
               : b \in bind(n.id, Fn("dude_x", <<>>, <<fn.vals[1], v>>), n.m)}
            : n \in rng_fn(Fn("normal", <<>>, <<v[1]>>), m) }

\* lambda x: fixed((g, d, x))
fn_dude_x(fn, v, m) == fixed(<<fn.vals[1], fn.vals[2], v>>, m)

\* self._fn(value) of a BindFakir
CallFn(fn, v, m) ==
    CASE fn.name = "price" -> fn_price(fn, v, m)
      [] fn.name = "a_h_v" -> fn_a_h_v(fn, v, m)
      [] fn.name = "a_h_v_h" -> fn_a_h_v_h(fn, v, m)
      [] fn.name = "ifElse" -> fn_ifElse(fn, v, m)
      [] fn.name = "hell" -> fn_hell(fn, v, m)
      [] fn.name = "hell_d" -> fn_hell_d(fn, v, m)
      [] fn.name = "dude" -> fn_dude(fn, v, m)
      [] fn.name = "dude_d" -> fn_dude_d(fn, v, m)
      [] fn.name = "dude_x" -> fn_dude_x(fn, v, m)

\* ------------------------------------------------------------ _generate
RECURSIVE generate_(_, _)
RECURSIVE GenArgs_reversed(_, _, _)
GenArgs_reversed(args, i, m) ==
    IF i > Len(args) THEN {Ok(m, <<>>)}
    ELSE UNION {
           IF r.exc # "" THEN {r}
           ELSE {IF a.exc # "" THEN a ELSE [a EXCEPT !.val = <<@>> \o r.val]
                   : a \in generate_(args[i], r.m)}
           : r \in GenArgs_reversed(args, i + 1, m)}

RECURSIVE GenArgs(_, _, _)
\* (arg._generate(r, cache) for arg in self._args), left to right
GenArgs(args, i, m) ==
    IF i > Len(args) THEN {Ok(m, <<>>)}
    ELSE UNION {
           IF a.exc # "" THEN {a}
           ELSE {IF r.exc # "" THEN r ELSE [r EXCEPT !.val = <<a.val>> \o @]
                   : r \in GenArgs(args, i + 1, a.m)}
           : a \in generate_(args[i], m)}

\* ConstFakir._generate
ConstFakir_generate(id, m) == {Ok(m, m.heap[id].val)}

\* LiftFakir._generate: self._fn(...) is applied to the values of the
\* arguments
LiftFakir_generate(id, m) ==
    {IF a.exc # "" THEN a
     ELSE Ok(Emit(a.m, "apply", id, NoObj, a.val),
             ApplyFn(m.heap[id].fn, a.val))
       : a \in GenArgs(m.heap[id].args, 1, m)}

BindFakir_generate_redraw(id, m) ==
    UNION {
      IF s.exc # "" THEN {s}
      ELSE UNION {
             {[r EXCEPT !.m = Free(@, c.made)] : r \in generate_(c.id, c.m)}
             : c \in CallFn(m.heap[id].fn, s.val,
                             Emit(s.m, "apply", id, NoObj, s.val))}
      : s \in {[g EXCEPT !.m.cache = m.cache]
                  : g \in generate_(m.heap[id].fakir,
                                    [m EXCEPT !.cache = EmptyCache])}}

BindFakir_generate_fresh(id, m) ==
    UNION {
      IF s.exc # "" THEN {s}
      ELSE UNION {
             {[r EXCEPT !.m = Free([@ EXCEPT !.cache = s.m.cache], c.made)]
                : r \in generate_(c.id, [c.m EXCEPT !.cache = EmptyCache])}
             : c \in CallFn(m.heap[id].fn, s.val,
                             Emit(s.m, "apply", id, NoObj, s.val))}
      : s \in generate_(m.heap[id].fakir, m)}

\* BindFakir._generate: the generator the continuation returns is sampled
\* with the same cache and dropped when the call returns
BindFakir_generate(id, m) ==
    UNION {
      IF s.exc # "" THEN {s}
      ELSE UNION {
             {[r EXCEPT !.m = Free(@, c.made)] : r \in generate_(c.id, c.m)}
             : c \in CallFn(m.heap[id].fn, s.val,
                             Emit(s.m, "apply", id, NoObj, s.val))}
      : s \in generate_(m.heap[id].fakir, m)}

\* obj._generate(r, cache), dispatched on the class of obj
generate_(id, m) ==
    LET o == m.heap[id]
        m1 == [Emit(m, "call", id, o, 0) EXCEPT !.depth = @ + 1]
        rs == CASE o.kind \in Primitive -> {Fakir_generate(id, m1)}
                [] o.kind = "Const" -> ConstFakir_generate(id, m1)
                [] o.kind = "Lift" -> LiftFakir_generate(id, m1)
                [] o.kind = "Bind" -> BindFakir_generate(id, m1)
    IN  {IF r.exc # "" THEN [r EXCEPT !.m.depth = m.depth]
         ELSE [r EXCEPT !.m = Emit([@ EXCEPT !.depth = m.depth],
                                   "ret", id, NoObj, r.val)]
           : r \in rs}

generate_stale(id, m) == generate_(id, [m EXCEPT !.log = <<>>])

\* Fakir.generate: self._generate(r, dict())
generate(id, m) ==
    generate_(id, [m EXCEPT !.cache = EmptyCache, !.log = <<>>])

\* ------------------------------------------------------ client scripts
Stmt(op, dst, a, fn, c, v) ==
    [op |-> op, dst |-> dst, a |-> a, fn |-> fn, c |-> c, v |-> v]

Uniform(dst, a) == Stmt("rng_fn", dst, <<>>, "uniform", <<>>, a)

Normal(dst, mu) == Stmt("rng_fn", dst, <<>>, "normal", <<>>, mu)

Tupled(dst, a) == Stmt("lift", dst, a, "tuple", <<>>, 0)

Op(dst, fn, a) == Stmt("lift", dst, a, fn, <<>>, 0)

Bind(dst, src, fn, c) == Stmt("bind", dst, <<src>>, fn, c, 0)

Sample(root) == Stmt("generate", "", <<root>>, "", <<>>, 0)

Vars == {"g", "g2", "t", "b", "c", "area", "height", "volume", "row",
         "a_h_v", "rp", "phase", "oil", "cond", "hi", "lo", "price",
         "guy", "dude", "dude2", "p"}

Progs == {"share", "volume", "share_bind", "clone", "clone_bind",
          "clone_fresh", "repeat", "repeat_lift", "repeat_bind", "price",
          "ifelse", "ifelse_fixed", "choice", "bootstrap", "permute",
          "hellmode", "bind_example", "ifelse_share",
          "a_h_v", "clone_share", "clone_volume"}

\* the statements of each script, in order
Code(p) ==
    CASE p = "share" ->
           <<Normal("g", 0), Tupled("t", <<"g", "g">>),
             Sample("g"), Sample("t"), Sample("t")>>
      [] p = "volume" ->
           <<Normal("area", 4), Uniform("height", 1),
             Op("volume", "mul", <<"area", "height">>),
             Tupled("row", <<"area", "height", "volume">>),
             Sample("row"), Sample("row")>>
      [] p = "share_bind" ->
           <<Stmt("choice", "phase", <<>>, "", <<>>, <<"Oil", "Gas">>),
             Bind("b", "phase", "price", <<>>),
             Tupled("t", <<"b", "b">>), Sample("t")>>
      [] p = "clone" ->
           <<Normal("g", 0), Stmt("iid", "g2", <<"g">>, "", <<>>, 0),
             Tupled("t", <<"g", "g2">>), Sample("t")>>
      [] p = "clone_bind" ->
           <<Normal("area", 4), Uniform("height", 1),
             Bind("a_h_v", "area", "a_h_v", <<"height">>),
             Stmt("iid", "c", <<"a_h_v">>, "", <<>>, 0),
             Tupled("t", <<"a_h_v", "c">>), Sample("t")>>
      [] p = "clone_fresh" ->
           <<Stmt("choice", "phase", <<>>, "", <<>>, <<"Oil", "Gas">>),
             Bind("b", "phase", "price", <<>>),
             Stmt("iid", "c", <<"b">>, "", <<>>, 0),
             Tupled("t", <<"b", "c">>), Sample("t")>>
      [] p = "repeat" ->
           <<Uniform("g", 0), Stmt("repeat", "rp", <<"g">>, "", <<>>, arg.k.k),
             Sample("rp"), Sample("rp")>>
      [] p = "repeat_lift" ->
           <<Normal("area", 4), Uniform("height", 1),
             Op("volume", "mul", <<"area", "height">>),
             Stmt("repeat", "rp", <<"volume">>, "", <<>>, arg.k.k),
             Sample("rp")>>
      [] p = "repeat_bind" ->
           <<Stmt("choice", "phase", <<>>, "", <<>>, <<"Oil", "Gas">>),
             Bind("b", "phase", "price", <<>>),
             Stmt("repeat", "rp", <<"b">>, "", <<>>, arg.k.k),
             Sample("rp")>>
      [] p = "price" ->
           <<Stmt("choice", "phase", <<>>, "", <<>>, <<"Oil", "Gas">>),
             Bind("price", "phase", "price", <<>>),
             Tupled("row", <<"phase", "price">>),
             Sample("row"), Sample("row")>>
      [] p = "ifelse" ->
           <<Stmt("choice", "phase", <<>>, "", <<>>, <<"Oil", "Gas">>),
             Stmt("fixed", "oil", <<>>, "", <<>>, "Oil"),
             Op("cond", "eq", <<"phase", "oil">>),
             Uniform("hi", 30), Uniform("lo", 1),
             Stmt("ifelse", "price", <<"cond", "hi", "lo">>, "", <<>>, 0),
             Tupled("row", <<"phase", "price">>),
             Sample("row"), Sample("row")>>
      [] p = "ifelse_fixed" ->
           <<Stmt("fixed", "cond", <<>>, "", <<>>, arg.k.k),
             Uniform("hi", 30), Uniform("lo", 1),
             Stmt("ifelse", "price", <<"cond", "hi", "lo">>, "", <<>>, 0),
             Sample("price")>>
      [] p = "ifelse_share" ->
           <<Stmt("fixed", "cond", <<>>, "", <<>>, 1),
             Uniform("hi", 30), Uniform("lo", 1),
             Stmt("ifelse", "price", <<"cond", "hi", "lo">>, "", <<>>, 0),
             Tupled("t", <<"hi", "price">>),
             Sample("t"), Sample("t")>>
      [] p = "a_h_v" ->
           <<Normal("area", 4), Uniform("height", 1),
             Bind("a_h_v", "area", "a_h_v", <<"height">>),
             Tupled("row", <<"a_h_v", "area", "height">>),
             Sample("row"), Sample("row")>>
      [] p = "clone_share" ->
           <<Normal("g", 0), Tupled("t", <<"g", "g">>),
             Stmt("iid", "c", <<"t">>, "", <<>>, 0),
             Tupled("row", <<"t", "c">>), Sample("row"), Sample("row")>>
      [] p = "clone_volume" ->
           <<Normal("area", 4), Uniform("height", 1),
             Op("volume", "mul", <<"area", "height">>),
             Tupled("row", <<"area", "height", "volume">>),
             Stmt("iid", "c", <<"row">>, "", <<>>, 0),
             Sample("c"), Sample("row")>>
      [] p = "choice" ->
           <<Stmt("choice", "p", <<>>, "", <<>>, arg.choices), Sample("p"),
             Tupled("t", <<"p", "p">>), Sample("t")>>
      [] p = "bootstrap" ->
           <<Stmt("bootstrap", "p", <<>>, "", <<>>, arg), Sample("p"),
             Tupled("t", <<"p", "p">>), Sample("t")>>
      [] p = "permute" ->
           <<Stmt("permute", "p", <<>>, "", <<>>, arg), Sample("p"),
             Tupled("t", <<"p", "p">>), Sample("t")>>
      [] p = "hellmode" ->
           <<Normal("guy", 100), Bind("dude", "guy", "hell", <<>>),
             Sample("dude"), Sample("dude")>>
      [] p = "bind_example" ->
           <<Normal("guy", 100), Bind("dude", "guy", "dude", <<>>),
             Stmt("iid", "dude2", <<"dude">>, "", <<>>, 0),
             Sample("dude"), Sample("dude2")>>

RECURSIVE Prefix(_)
\* the list [1, ..., n]
Prefix(n) == IF n = 0 THEN <<>> ELSE Append(Prefix(n - 1), n)

Arg(choices, k) == [choices |-> choices, k |-> k]

\* the parameters a script is run with
Args(p) ==
    CASE p \in {"choice"} ->
           {Arg(Prefix(n), None) : n \in 0..(MaxChoose - 1)}
      [] p = "bootstrap" ->
           {Arg(Prefix(n), Some(k)) : n \in 0..(MaxChoose - 1),
                                      k \in (-1)..MaxChoose}
      [] p = "permute" ->
           {Arg(Prefix(n), k) : n \in 0..(MaxChoose - 1),
                                k \in {None} \cup
                                      {Some(j) : j \in (-1)..MaxChoose}}
      [] p \in {"repeat", "repeat_lift", "repeat_bind"} ->
           {Arg(<<>>, Some(k)) : k \in 0..RepeatCount}
      [] p = "ifelse_fixed" -> {Arg(<<>>, Some(k)) : k \in 0..1}
      [] OTHER -> {Arg(<<>>, None)}

\* ------------------------------------------------------------------ state
Init ==
    /\ prog \in Progs
    /\ arg \in Args(prog)
    /\ pc = 1
    /\ env = [x \in Vars |-> 0]
    /\ heap = [i \in 1..MaxAddr |-> NoObj]
    /\ seed \in [1..SeedLen -> 0..RawMax]
    /\ pos = 0
    /\ cache = EmptyCache
    /\ log = <<>>
    /\ out = <<>>
    /\ err = ""

Running == err = "" /\ pc <= Len(Code(prog))

stmt == Code(prog)[pc]

\* outside generate() no cache dict exists
Top == Machine(heap, EmptyCache, pos, <<>>)

\* dst = <constructor call>: bind the name to one of the possible results
Assign(results) ==
    /\ \E r \in results :
         /\ heap' = r.m.heap
         /\ env' = [env EXCEPT ![stmt.dst] = r.id]
    /\ pc' = pc + 1
    /\ UNCHANGED <<prog, arg, seed, pos, cache, log, out, err>>

FixedStmt == Running /\ stmt.op = "fixed" /\ Assign(fixed(stmt.v, Top))

RngFnStmt ==
    Running /\ stmt.op = "rng_fn"
            /\ Assign(rng_fn(Fn(stmt.fn, <<>>, <<stmt.v>>), Top))

\* choice(choices)
ChoiceStmt ==
    Running /\ stmt.op = "choice"
            /\ Assign({[m |-> y.m, id |-> y.id]
                         : y \in New(Top, ChoiceFakir(stmt.v))})

\* bootstrap(choices, count)
BootstrapStmt ==
    Running /\ stmt.op = "bootstrap"
            /\ Assign({[m |-> y.m, id |-> y.id]
                         : y \in New(Top, BootstrapFakir(stmt.v.choices,
                                                         stmt.v.k.k))})

\* permute(choices, choose): a ValueError of the constructor ends the script
PermuteStmt ==
    /\ Running /\ stmt.op = "permute"
    /\ LET c == PermuteFakir(stmt.v.choices, stmt.v.k)
       IN  IF c.exc # ""
           THEN /\ err' = c.exc
                /\ UNCHANGED <<prog, arg, pc, env, heap, seed, pos, cache,
                               log, out>>
           ELSE Assign({[m |-> y.m, id |-> y.id] : y \in New(Top, c.obj)})

LiftStmt ==
    Running /\ stmt.op = "lift"
            /\ Assign(lift(Fn(stmt.fn, <<>>, <<>>),
                           [i \in DOMAIN stmt.a |-> env[stmt.a[i]]], Top))

BindStmt ==
    Running /\ stmt.op = "bind"
            /\ Assign(bind(env[stmt.a[1]],
                           Fn(stmt.fn, [i \in DOMAIN stmt.c |-> env[stmt.c[i]]],
                              <<>>), Top))

IidStmt == Running /\ stmt.op = "iid" /\ Assign(iid(env[stmt.a[1]], Top))

RepeatStmt ==
    Running /\ stmt.op = "repeat"
            /\ Assign(repeat(env[stmt.a[1]], stmt.v, Top))

IfElseStmt ==
    Running /\ stmt.op = "ifelse"
            /\ Assign(ifelse(env[stmt.a[1]], env[stmt.a[2]], env[stmt.a[3]],
                             Top))

\* print(root.generate(r)): an exception ends the script
GenerateStmt ==
    /\ Running /\ stmt.op = "generate"
    /\ \E r \in generate(env[stmt.a[1]], Machine(heap, cache, pos, <<>>)) :
         /\ heap' = r.m.heap
         /\ pos' = r.m.pos
         /\ cache' = r.m.cache
         /\ log' = r.m.log
         /\ out' = Append(out, [val |-> r.val, exc |-> r.exc,
                                root |-> env[stmt.a[1]],
                                from |-> pos, to |-> r.m.pos])
         /\ err' = r.exc
    /\ pc' = pc + 1
    /\ UNCHANGED <<prog, arg, env, seed>>

Next ==
    \/ FixedStmt
    \/ RngFnStmt
    \/ ChoiceStmt
    \/ BootstrapStmt
    \/ PermuteStmt
    \/ LiftStmt
    \/ BindStmt
    \/ IidStmt
    \/ RepeatStmt
    \/ IfElseStmt
    \/ GenerateStmt

Spec == Init /\ [][Next]_vars

\* ------------------------------------------- truncated_normal, step by step
\* A script g = truncated_normal(0, 1, a, b); print(g.generate(r)); ... with
\* the rejection loop of tnorm run one iteration per step.  The variates of
\* r are chosen when they are drawn.  pc: 1 before the constructor, 2
\* between generate() calls, 3 inside the while loop of tnorm.
Bounds == {None} \cup {Some(k) : k \in (0 - 1)..MaxBound}

TnormInit ==
    /\ prog = "truncated_normal"
    /\ arg \in [a : Bounds, b : Bounds]
    /\ pc = 1
    /\ env = [x \in Vars |-> 0]
    /\ heap = [i \in 1..MaxAddr |-> NoObj]
    /\ seed = <<>>
    /\ pos = 0
    /\ cache = EmptyCache
    /\ log = <<>>
    /\ out = <<>>
    /\ err = ""

\* g = truncated_normal(0, 1, a, b)
TruncatedNormalStmt ==
    /\ pc = 1
    /\ \E r \in truncated_normal(0, arg.a, arg.b, Top) :
         /\ heap' = r.m.heap
         /\ env' = [env EXCEPT !["g"] = r.id]
    /\ pc' = 2
    /\ UNCHANGED <<prog, arg, seed, pos, cache, log, out, err>>

\* g.generate(r): a new cache, no entry for g, so generate1 = tnorm runs
TnormGenerate ==
    /\ pc = 2 /\ Len(out) < MaxSamples
    /\ cache' = EmptyCache
    /\ log' = <<Ev("call", env["g"], 0, heap[env["g"]], 0, pos)>>
    /\ pc' = 3
    /\ UNCHANGED <<prog, arg, env, heap, seed, pos, out, err>>

\* the position of r after one more variate, counted up to MaxDraws
Consume(p) == IF p < MaxDraws THEN p + 1 ELSE p

\* the history with one more event, of which the call and the last MaxDraws
\* draws are remembered
Remember(l, e) ==
    IF Len(l) <= MaxDraws THEN Append(l, e)
    ELSE <<l[1]>> \o SubSeq(l, 3, Len(l)) \o <<e>>

\* one iteration of while True whose variate fails the test
TnormReject ==
    /\ pc = 3
    /\ \E val \in r_normalvariate(heap[env["g"]].fn.vals[1]) :
         /\ ~tnorm_accepts(heap[env["g"]].fn, val)
         /\ pos' = Consume(pos)
         /\ log' = Remember(log, Ev("draw", env["g"], 1, NoObj, val, pos'))
    /\ UNCHANGED <<prog, arg, pc, env, heap, seed, cache, out, err>>

\* one iteration whose variate passes: tnorm returns it, _generate stores it
\* in the cache and generate() returns it
TnormReturn ==
    /\ pc = 3
    /\ \E val \in r_normalvariate(heap[env["g"]].fn.vals[1]) :
         /\ tnorm_accepts(heap[env["g"]].fn, val)
         /\ pos' = Consume(pos)
         /\ log' = Remember(log, Ev("draw", env["g"], 1, NoObj, val, pos'))
         /\ cache' = (env["g"] :> val) @@ cache
         /\ out' = Append(out, [val |-> val, exc |-> "", root |-> env["g"],
                                from |-> log[1].pos, to |-> pos'])
    /\ pc' = 2
    /\ UNCHANGED <<prog, arg, env, heap, seed, err>>

TnormNext ==
    \/ TruncatedNormalStmt
    \/ TnormGenerate
    \/ TnormReject
    \/ TnormReturn

TnormSpec == TnormInit /\ [][TnormNext]_vars

\* the interpreter keeps running the script, and the Random instance is
\* fair: a variate that can be drawn again and again is drawn
TnormFair == TnormSpec /\ WF_vars(TnormNext) /\ SF_vars(TnormReturn)

\* ------------------------------------------------- reading the history
Sampled == out # <<>>

last == out[Len(out)]

Events(ev) == {i \in DOMAIN log : log[i].ev = ev}

DrawsOf(id) == {i \in Events("draw") : log[i].id = id}

\* the argument of the root (first, second, ...) an event belongs to
Seg(i) == 1 + Cardinality({j \in 1..(i - 1) : log[j].ev = "ret" /\ log[j].d = 1})

\* the cache keys read or written while argument s of the root is sampled
Keys(s) == {log[i].id : i \in {j \in Events("draw") \cup Events("hit") : Seg(j) = s}}

DrawsIn(s) == {i \in Events("draw") : Seg(i) = s}

RECURSIVE Reach(_)
\* the instances reachable from x through _args and _fakir
Reach(x) ==
    {x} \cup UNION {Reach(heap[x].args[i]) : i \in DOMAIN heap[x].args}
        \cup (IF heap[x].fakir = 0 THEN {} ELSE Reach(heap[x].fakir))

\* the value the instance bound to name x returned in the last call
ValueOf(x) ==
    log[CHOOSE i \in Events("ret") : log[i].id = env[x]].val

\* ------------------------------------------------------------------ C1
\* C1: within one generate() call every instance of any variant that is
\* sampled through several paths returns the same value on each of them; in
\* particular both elements of tupled(b, b) are equal for b = g.bind(f).
C1_SharedInstanceOneValue ==
    (Sampled /\ last.exc = "") =>
        \A i \in Events("ret") : \A j \in Events("ret") :
            (log[i].id = log[j].id /\ heap[log[i].id].kind # "free")
                => log[i].val = log[j].val

\* ------------------------------------------------------------------ C2
\* C2: a primitive instance referenced through several paths draws once per
\* generate() call and every path sees that value: tupled(g, g) has equal
\* elements and tupled(area, height, area * height) has the product third.
C2_PrimitiveDrawnOnce ==
    (Sampled /\ last.exc = "") =>
        /\ \A id \in Reach(last.root) :
             heap[id].kind \in Primitive =>
               /\ Cardinality(DrawsOf(id)) = 1
               /\ \A i \in Events("ret") : \A d \in DrawsOf(id) :
                    log[i].id = id => log[i].val = log[d].val
        /\ (prog \in {"share", "choice", "bootstrap", "permute"} /\ Len(out) >= 2)
             => last.val[1] = last.val[2]
        /\ prog = "volume" => last.val[3] = last.val[1] * last.val[2]

C2_Witness ==
    /\ prog = "volume" /\ Sampled
    /\ last.val = <<5, 2, 10>>
    /\ Cardinality(Events("hit")) = 2

\* ------------------------------------------------------------------ C3
\* C3: with t = tupled(g, g.iid()), no cache key read or written while the
\* clone is sampled is one used while the original is sampled, and the
\* clone performs as many draws of its own as the original.
C3_CloneSharesNoCacheEntry ==
    (prog \in {"clone", "clone_bind", "clone_fresh"} /\ Sampled) =>
        /\ Keys(1) \cap Keys(2) = {}
        /\ Cardinality(DrawsIn(2)) = Cardinality(DrawsIn(1))

\* ------------------------------------------------------------------ C4
\* C4: repeat(g, n) yields exactly n values, each from its own RNG draws:
\* every element draws, and no element is served from a cache entry that
\* another element stored.
C4_RepeatElementsDrawSeparately ==
    (prog \in {"repeat", "repeat_lift", "repeat_bind"} /\ Sampled) =>
        /\ Len(last.val) = arg.k.k
        /\ \A s \in 1..arg.k.k : DrawsIn(s) # {}
        /\ \A i \in Events("hit") :
             \E j \in DrawsIn(Seg(i)) : j < i /\ log[j].id = log[i].id

\* ------------------------------------------------------------------ C5
\* C5: every generate() call starts from an empty cache: a value served
\* from the cache was computed earlier in the same call, the cache holds
\* only keys of this call, and every primitive reachable from the root
\* runs its generate1 within the call.
C5_FreshCachePerCall ==
    Sampled =>
        /\ \A i \in Events("hit") :
             \E j \in Events("draw") : j < i /\ log[j].id = log[i].id
        /\ DOMAIN cache = {log[i].id : i \in Events("draw")}
        /\ \A i \in Events("draw") :
             last.from <= log[i].pos /\ log[i].pos <= last.to
        /\ last.exc = "" =>
             \A id \in Reach(last.root) :
                 heap[id].kind \in Primitive => DrawsOf(id) # {}

C5_Witness ==
    /\ prog = "share" /\ Len(out) = 3
    /\ out[1].val = 0 /\ out[2].val = <<1, 1>> /\ out[3].val = <<0, 0>>
    /\ out[3].from = 2 /\ out[3].to = 3

\* ------------------------------------------------------------------ C6
\* C6: every sample of tupled(phase, price), price = phase.bind(f), pairs
\* the phase v with a value made by f(v): the continuation is given the
\* cached phase, which is drawn once.
C6_ContinuationSeesCachedSource ==
    (prog = "price" /\ Sampled) =>
        /\ last.exc = ""
        /\ last.val[2][1] = last.val[1]
        /\ last.val[2][2] - PriceLo(last.val[1]) \in 0..RawMax
        /\ Cardinality(DrawsOf(env["phase"])) = 1

C6_Witness ==
    /\ prog = "price" /\ Len(out) = 2
    /\ out[1].val = <<"Oil", <<"Oil", 31>>>>
    /\ out[2].val[1] = "Gas"

\* ------------------------------------------------------------------ C7
\* C7: sampling ifelse(cond, a, b) samples cond and then one branch: the
\* only uniform generators sampled are copies of the branch cond selects,
\* exactly one of them, after cond has returned.
Taken == IF Truthy(ValueOf("cond")) THEN heap[env["hi"]] ELSE heap[env["lo"]]

NotTaken == IF Truthy(ValueOf("cond")) THEN heap[env["lo"]] ELSE heap[env["hi"]]

BranchCalls(b) ==
    {i \in Events("call") : log[i].o.kind = "Fn1" /\ log[i].o.fn = b.fn}

C7_OnlySelectedBranchSampled ==
    (prog \in {"ifelse", "ifelse_fixed"} /\ Sampled) =>
        /\ last.exc = ""
        /\ BranchCalls(NotTaken) = {}
        /\ Cardinality(BranchCalls(Taken)) = 1
        /\ \A i \in BranchCalls(Taken) :
             \E j \in Events("ret") : j < i /\ log[j].id = env["cond"]
        /\ \A i \in Events("draw") :
             log[i].id = env["phase"] \/ log[i].val - Taken.fn.vals[1] \in 0..RawMax
        /\ last.to - last.from <= 2

C7_Witness ==
    /\ prog = "ifelse" /\ Len(out) = 2
    /\ out[1].val[1] = "Oil" /\ out[1].val[2] >= 30
    /\ out[2].val[1] = "Gas" /\ out[2].val[2] <= 2

\* ------------------------------------------------------------------ C8
\* C8: permute(choices, choose) with choose < 0 or choose > len(choices)
\* raises ValueError in the constructor: no generator is made, no RNG state
\* is consumed and nothing is ever sampled.
BadChoose == arg.k.some /\ (arg.k.k < 0 \/ arg.k.k > Len(arg.choices))

C8_PermuteRejectsAtConstruction ==
    (prog = "permute" /\ BadChoose) =>
        /\ pc = 1
        /\ err \in {"", "ValueError"}
        /\ env["p"] = 0
        /\ \A i \in 1..MaxAddr : heap[i].kind = "free"
        /\ pos = 0
        /\ out = <<>>

C8_Witness ==
    /\ prog = "permute" /\ err = "ValueError"
    /\ arg.choices = <<1, 2>> /\ arg.k = Some(3)

\* ------------------------------------------------------------------ C9
EmptySource == arg.choices = <<>>

\* C9 as stated: generate() raises on choice([]), on bootstrap([], k) for
\* every k >= 0 and on permute([]), while construction succeeds.
C9_EmptySourceAlwaysRaises ==
    (/\ EmptySource
     /\ \/ prog = "choice"
        \/ prog = "bootstrap" /\ arg.k.k >= 0
        \/ prog = "permute" /\ ~arg.k.some) =>
        /\ pc = 1 => err = ""
        /\ Sampled => out[1].exc # ""

\* C9 amended: over an empty collection, construction succeeds; generate()
\* raises IndexError on choice([]) and on bootstrap([], k) for k >= 1, and
\* returns the empty list without consuming RNG state on bootstrap([], 0)
\* and on permute([]).
C9_EmptySourceRaisesWhenPicking ==
    /\ (EmptySource /\ (prog = "choice" \/ (prog = "bootstrap" /\ arg.k.k >= 1))) =>
         /\ pc = 1 => err = ""
         /\ pc = 2 => env["p"] # 0
         /\ Sampled => (Len(out) = 1 /\ last.exc = "IndexError")
    /\ (/\ EmptySource
        /\ \/ prog = "bootstrap" /\ arg.k.k = 0
           \/ prog = "permute" /\ ~arg.k.some) =>
         /\ pc = 1 => err = ""
         /\ pc = 2 => env["p"] # 0
         /\ Sampled => (/\ out[1].exc = "" /\ out[1].val = <<>>
                         /\ last.exc = "" /\ last.to = 0)

C9_Witness ==
    /\ prog = "bootstrap" /\ EmptySource /\ arg.k.k = 2
    /\ Sampled /\ last.exc = "IndexError"

\* ------------------------------------------------------------------ C10
\* C10: determinism: with the tree and the state of the Random instance
\* fixed, generate() has one possible result and leaves the Random instance
\* in one possible state, whatever addresses the allocator hands out.
C10_ResultIndependentOfAddresses ==
    (Running /\ stmt.op = "generate") =>
        \A r1 \in generate(env[stmt.a[1]], Machine(heap, cache, pos, <<>>)) :
        \A r2 \in generate(env[stmt.a[1]], Machine(heap, cache, pos, <<>>)) :
            /\ r1.exc = r2.exc
            /\ r1.m.pos = r2.m.pos
            /\ r1.exc = "" => r1.val = r2.val

\* ------------------------------------------------------------------ C11
\* the lists p produced in sample i: the value of p itself, or the two
\* elements of tupled(p, p)
Lists(i) ==
    IF out[i].root = env["p"] THEN {out[i].val}
    ELSE {out[i].val[1], out[i].val[2]}

\* C11: every sample of permute(choices) is a list of len(choices) elements
\* using each position of choices once; every sample of permute(choices, k),
\* 0 <= k <= len(choices), has k elements from distinct positions; every
\* sample of bootstrap(choices, count), count >= 0 over a non-empty
\* collection, has count elements, each one of choices.
C11_PermuteBootstrapShape ==
    /\ (prog = "permute" /\ ~BadChoose) =>
         \A i \in DOMAIN out :
           /\ out[i].exc = ""
           /\ \A l \in Lists(i) :
                /\ Len(l) = heap[env["p"]].count
                /\ heap[env["p"]].count =
                     (IF arg.k.some THEN arg.k.k ELSE Len(arg.choices))
                /\ Range(l) \subseteq Range(arg.choices)
                /\ Cardinality(Range(l)) = Len(l)
                /\ ~arg.k.some => Range(l) = Range(arg.choices)
    /\ (prog = "bootstrap" /\ arg.k.k >= 0
                           /\ (arg.choices # <<>> \/ arg.k.k = 0)) =>
         \A i \in DOMAIN out :
           /\ out[i].exc = ""
           /\ \A l \in Lists(i) :
                /\ Len(l) = arg.k.k
                /\ Range(l) \subseteq Range(arg.choices)

C11_Witness ==
    /\ prog = "permute" /\ arg = Arg(<<1, 2>>, None)
    /\ Len(out) = 2
    /\ out[1].val = <<2, 1>>
    /\ out[2].val[1] \in {<<1, 2>>, <<2, 1>>}

\* ------------------------------------------------------------------ C12
\* the times the function of a lifted instance or the continuation of a
\* bound instance was called in the last generate() call
Applies(id) == {i \in Events("apply") : log[i].id = id}

\* C12: in one generate() call, every instance reachable from the root,
\* whatever its variant, has its value stored in the cache under its id,
\* and its function (mapped, lifted) or continuation (bound) is called at
\* most once.
C12_EveryVariantMemoized ==
    (Sampled /\ last.exc = "") =>
        \A id \in Reach(last.root) :
            /\ id \in DOMAIN cache
            /\ \A i \in Events("ret") : log[i].id = id => log[i].val = cache[id]
            /\ Cardinality(Applies(id)) <= 1

\* ------------------------------------------------------------------ C13
\* C13: in tupled(a, ifelse(fixed(True), a, b)) the value of the ifelse
\* is the value of the other occurrence of a, in every generate() call.
C13_IfElseSharesBranchInstance ==
    (prog = "ifelse_share" /\ Sampled) =>
        /\ last.exc = ""
        /\ last.val[2] = last.val[1]

\* ------------------------------------------------------------------ C14
\* C14: sampling a_h_v = area.bind(lambda a: height.bind(...)) samples
\* area, then calls the continuation with that value, then samples the
\* generator it returns with the same cache: in tupled(a_h_v, area, height)
\* the (a, h, a * h) of the first element is made of the other two
\* elements, and area and height are each drawn once.
C14_BindThreadsOneCache ==
    (prog = "a_h_v" /\ Sampled) =>
        /\ last.exc = ""
        /\ last.val[1] = <<last.val[2], last.val[3], last.val[2] * last.val[3]>>
        /\ Cardinality(DrawsOf(env["area"])) = 1
        /\ Cardinality(DrawsOf(env["height"])) = 1
        /\ \A i \in Applies(env["a_h_v"]) :
             /\ \E j \in Events("ret") :
                  j < i /\ log[j].id = env["area"] /\ log[j].val = log[i].val
             /\ \E k \in Events("call") :
                  /\ k > i /\ log[k].o.kind = "Bind"
                  /\ log[k].o.fakir = env["height"]
                  /\ \A d \in DrawsOf(env["height"]) : d > k
        /\ \E i \in Events("hit") : log[i].id = env["height"]

C14_Witness ==
    /\ prog = "a_h_v" /\ Len(out) = 2
    /\ out[1].val = <<<<4, 2, 8>>, 4, 2>>
    /\ out[2].val = <<<<5, 1, 5>>, 5, 1>>

\* ------------------------------------------------------------------ C15
\* the end of the evaluation that starts at event i: its "ret" event, or
\* the end of the log when an exception cut it short
End(i) ==
    IF \E j \in (i + 1)..Len(log) : log[j].d <= log[i].d
    THEN Min({j \in (i + 1)..Len(log) : log[j].d <= log[i].d})
    ELSE Len(log) + 1

\* the events of kind ev of the arguments evaluated by the call at event
\* i, in the order they happened
Children(i, ev) ==
    SelectSeq([j \in 1..Len(log) |-> j],
              LAMBDA j : /\ i < j /\ j < End(i)
                         /\ log[j].ev = ev /\ log[j].d = log[i].d + 1)

\* C15: every evaluation of a lifted instance evaluates its arguments
\* once per occurrence in the argument list, in the order of the list,
\* each argument returning before the next one starts; the RNG position
\* never goes back, so an argument that draws does so before every later
\* argument; the function is applied to the argument values in argument
\* order and its result is the value of the lifted instance.
C15_LiftEvaluatesLeftToRight ==
    (Sampled /\ last.exc = "") =>
        /\ \A i \in Events("call") :
             log[i].o.kind = "Lift" =>
               LET calls == Children(i, "call")
                   rets == Children(i, "ret")
                   args == log[i].o.args
               IN  /\ Len(calls) = Len(args) /\ Len(rets) = Len(args)
                   /\ \A k \in DOMAIN args :
                        /\ log[calls[k]].id = args[k]
                        /\ log[rets[k]].id = args[k]
                        /\ calls[k] < rets[k]
                        /\ k < Len(args) => rets[k] < calls[k + 1]
                   /\ \E a \in Applies(log[i].id) :
                        /\ i < a /\ a < End(i)
                        /\ \A k \in DOMAIN args : rets[k] < a
                        /\ log[a].val = [k \in DOMAIN args |-> log[rets[k]].val]
                        /\ log[End(i)].val = ApplyFn(log[i].o.fn, log[a].val)
        /\ \A j \in DOMAIN log : \A k \in DOMAIN log :
             j < k => log[j].pos <= log[k].pos

C15_Witness ==
    /\ prog = "volume" /\ Len(out) = 2
    /\ out[1].val = <<4, 2, 8>>
    /\ [k \in 1..3 |-> log[Children(1, "call")[k]].id]
         = <<env["area"], env["height"], env["volume"]>>
    /\ Cardinality(Events("draw")) = 2
    /\ \A i \in DrawsOf(env["area"]) : \A j \in DrawsOf(env["height"]) :
         i < j /\ log[i].pos < log[j].pos

\* ------------------------------------------------------------------ C16
\* C16: a value read from the cache was drawn by the very instance that
\* reads it: no instance created after the draw, at the address of an
\* instance dropped since, is served the value stored under that address.
C16_HitReturnsOwnValue ==
    Sampled =>
        \A i \in Events("hit") :
            \E j \in DrawsOf(log[i].id) :
                /\ j < i
                /\ log[j].val = log[i].val
                /\ \A n \in Events("new") :
                     log[n].id = log[i].id => (n < j \/ i < n)

\* ------------------------------------------------------------------ C17
\* some variate normalvariate can return lies within the bounds
Drawable ==
    \E raw \in 0..RawMax :
        /\ (~arg.a.some \/ raw >= arg.a.k)
        /\ (~arg.b.some \/ raw <= arg.b.k)

\* C17: when some drawable variate lies within the bounds, a generate()
\* call that has entered the loop of tnorm returns; when none does (as
\* with a > b), nothing is ever returned or raised, and a call that has
\* entered the loop stays in it.
C17_TnormReturnsIffDrawable ==
    /\ (pc = 3 /\ Drawable) ~> (pc = 2 /\ out # <<>>)
    /\ [](~Drawable => (out = <<>> /\ err = "" /\ cache = EmptyCache))
    /\ []((pc = 3 /\ ~Drawable) => [](pc = 3))

C17_Witness ==
    /\ arg.a = Some(1) /\ arg.b = None
    /\ pc = 2 /\ Len(out) = 1
    /\ last.val = 1 /\ last.from = 0 /\ last.to = 3

\* ------------------------------------------------------------------ C18
\* the draws of the current evaluation, in order
Draws == SelectSeq(log, LAMBDA e : e.ev = "draw")

WithinBounds(val) ==
    /\ (~arg.a.some \/ val >= arg.a.k)
    /\ (~arg.b.some \/ val <= arg.b.k)

\* C18: every value generate() returns is within the bounds given; every
\* draw before the returned one is out of bounds, took one variate from
\* the Random instance and left no trace in cache or output; the value
\* returned is the last draw, so the first one within bounds.
C18_TnormReturnsFirstInBounds ==
    /\ \A i \in DOMAIN out : out[i].exc = "" /\ WithinBounds(out[i].val)
    /\ \A k \in DOMAIN Draws :
         /\ (k < Len(Draws) \/ pc = 3) => ~WithinBounds(Draws[k].val)
         /\ (k > 1 /\ Draws[k].pos < MaxDraws)
              => Draws[k].pos = Draws[k - 1].pos + 1
    /\ pc = 3 => (cache = EmptyCache /\ Len(out) < MaxSamples)
    /\ (pc = 3 /\ pos < MaxDraws) => pos = log[1].pos + Len(Draws)
    /\ (pc = 2 /\ out # <<>>) =>
         /\ Draws # <<>>
         /\ last.val = Draws[Len(Draws)].val
         /\ cache = (env["g"] :> last.val)
         /\ last.to = pos
         /\ last.to < MaxDraws => last.to = last.from + Len(Draws)

C18_Witness ==
    /\ arg.a = Some(0) /\ arg.b = Some(0)
    /\ Len(out) = 2
    /\ out[1].val = 0 /\ out[1].to = 1
    /\ [k \in DOMAIN Draws |-> Draws[k].val] = <<1, 1, 0>>

\* ------------------------------------------------------------------ C19
\* C19: c = t.iid() for t = tupled(g, g) is a tuple of one new instance
\* taken twice, so its samples are pairs of equal elements, drawn apart
\* from those of t; c = row.iid() for row = tupled(area, height, area *
\* height) has a product over the copies of area and height, so the third
\* element of its samples is the product of the first two; the copied
\* instances are what their constructors made, before and after.
C19_IidKeepsSharing ==
    /\ (prog = "clone_share" /\ pc > 3) =>
         LET c == heap[env["c"]]
         IN  /\ heap[env["g"]] = Fn1Fakir(Fn("normal", <<>>, <<0>>))
             /\ heap[env["t"]] = LiftFakir(Fn("tuple", <<>>, <<>>),
                                           <<env["g"], env["g"]>>)
             /\ c = [heap[env["t"]] EXCEPT !.args = c.args]
             /\ Len(c.args) = 2 /\ c.args[1] = c.args[2]
             /\ c.args[1] \notin {env["g"], env["t"], env["c"]}
             /\ env["c"] \notin {env["g"], env["t"]}
             /\ heap[c.args[1]] = heap[env["g"]]
             /\ Sampled =>
                  /\ last.exc = ""
                  /\ last.val[1][1] = last.val[1][2]
                  /\ last.val[2][1] = last.val[2][2]
                  /\ Cardinality(DrawsOf(env["g"])) = 1
                  /\ Cardinality(DrawsOf(c.args[1])) = 1
    /\ (prog = "clone_volume" /\ pc > 5) =>
         LET c == heap[env["c"]]
         IN  /\ heap[env["area"]] = Fn1Fakir(Fn("normal", <<>>, <<4>>))
             /\ heap[env["height"]] = Fn1Fakir(Fn("uniform", <<>>, <<1>>))
             /\ heap[env["volume"]] = LiftFakir(Fn("mul", <<>>, <<>>),
                                                <<env["area"], env["height"]>>)
             /\ heap[env["row"]] =
                  LiftFakir(Fn("tuple", <<>>, <<>>),
                            <<env["area"], env["height"], env["volume"]>>)
             /\ c = [heap[env["row"]] EXCEPT !.args = c.args]
             /\ Len(c.args) = 3
             /\ Reach(env["c"]) \cap Reach(env["row"]) = {}
             /\ Cardinality(Reach(env["c"])) = 4
             /\ heap[c.args[1]] = heap[env["area"]]
             /\ heap[c.args[2]] = heap[env["height"]]
             /\ heap[c.args[3]] =
                  LiftFakir(Fn("mul", <<>>, <<>>), <<c.args[1], c.args[2]>>)
             /\ Sampled =>
                  /\ last.exc = ""
                  /\ last.val[3] = last.val[1] * last.val[2]
                  /\ Cardinality(Events("draw")) = 2

C19_Witness ==
    /\ prog = "clone_volume" /\ Len(out) = 2
    /\ out[1].root = env["c"] /\ out[1].val = <<5, 2, 10>>
    /\ out[2].root = env["row"] /\ out[2].val = <<4, 2, 8>>

====
